---- MODULE Spec2Model ----
(***************************************************************************)
(* Model of the capture / training / recognition pipeline of src/app.py:   *)
(* the registration capture loop, the training trigger and training        *)
(* thread, the attendance loop, the CSV ledger and the shared counters     *)
(* guarded by global_lock.                                                 *)
(*                                                                         *)
(* Strings are sequences of one-character strings, so that sanitize,       *)
(* str.replace and str.split are computed character by character.          *)
(***************************************************************************)
EXTENDS Integers, Sequences, FiniteSets, TLC

\* ------------------------------------------------------------------------
\* Bounds of the model (not program constants)
\* ------------------------------------------------------------------------
\* Half-seconds the clock may advance; every accepted capture sleeps 0.5 s,
\* so this also bounds the total number of sample files written.
MaxTime == 6
\* Capture streams that may be open at the same time.
MaxRegSessions == 1
\* Training threads that may be alive at the same time.
MaxTrainers == 2
\* train_model requests that may be in progress at the same time.
MaxTrainReqs == 1
\* Attendance streams that may be open at the same time.
MaxAttSessions == 2
\* Calendar days the clock may advance.
MaxDay == 1
\* Rows the ledger may hold.
MaxLedger == 2
\* Faces the detector may report in one frame.
MaxFaces == 2
\* Attendance streams of the recognition specification.
MaxRecStreams == 1

\* ------------------------------------------------------------------------
\* Program constants
\* ------------------------------------------------------------------------
\* src/app.py:806, 819, 827, 846: samples per registration
N == 5
\* src/app.py:871
RECOGNITION_THRESHOLD == 80

\* ------------------------------------------------------------------------
\* Characters and strings
\* ------------------------------------------------------------------------
Letters ==
    {"a","b","c","d","e","f","g","h","i","j","k","l","m",
     "n","o","p","q","r","s","t","u","v","w","x","y","z",
     "A","B","C","D","E","F","G","H","I","J","K","L","M",
     "N","O","P","Q","R","S","T","U","V","W","X","Y","Z"}

Digits == {"0","1","2","3","4","5","6","7","8","9"}

\* the characters the regular expression class \w matches
WordChars == Letters \cup Digits \cup {"_"}

\* the characters str.strip() removes
Whitespace == {" ", "\t", "\n"}

\* os.sep
Sep == "/"

RECURSIVE LStrip(_)
LStrip(s) ==
    IF s = <<>> THEN <<>>
    ELSE IF Head(s) \in Whitespace THEN LStrip(Tail(s)) ELSE s

RECURSIVE RStrip(_)
RStrip(s) ==
    IF s = <<>> THEN <<>>
    ELSE IF s[Len(s)] \in Whitespace THEN RStrip(SubSeq(s, 1, Len(s) - 1)) ELSE s

\* text.strip()
Strip(s) == RStrip(LStrip(s))

RECURSIVE DropNonWord(_)
DropNonWord(s) ==
    IF s = <<>> THEN <<>>
    ELSE IF Head(s) \in WordChars THEN s ELSE DropNonWord(Tail(s))

\* re.sub(r'\W+', '_', s): every maximal run of non-word characters
\* becomes one underscore
RECURSIVE ReSubNonWord(_)
ReSubNonWord(s) ==
    IF s = <<>> THEN <<>>
    ELSE IF Head(s) \in WordChars
         THEN <<Head(s)>> \o ReSubNonWord(Tail(s))
         ELSE <<"_">> \o ReSubNonWord(DropNonWord(Tail(s)))

sanitize(text) == ReSubNonWord(Strip(text))

\* s.replace(old, ""): every non-overlapping occurrence of old, found left
\* to right, is removed
RECURSIVE ReplaceWithEmpty(_, _)
ReplaceWithEmpty(s, old) ==
    IF Len(s) < Len(old) THEN s
    ELSE IF SubSeq(s, 1, Len(old)) = old
         THEN ReplaceWithEmpty(SubSeq(s, Len(old) + 1, Len(s)), old)
         ELSE <<Head(s)>> \o ReplaceWithEmpty(Tail(s), old)

\* s.split(os.sep)
RECURSIVE SplitFrom(_, _)
SplitFrom(s, cur) ==
    IF s = <<>> THEN <<cur>>
    ELSE IF Head(s) = Sep THEN <<cur>> \o SplitFrom(Tail(s), <<>>)
         ELSE SplitFrom(Tail(s), Append(cur, Head(s)))

Split(s) == SplitFrom(s, <<>>)

\* os.path.normpath(s).split(os.sep) for a relative path: empty and "."
\* components are dropped (no ".." component can occur: the keys are built
\* from word characters)
NormSplit(s) ==
    SelectSeq(Split(s), LAMBDA p : p # <<>> /\ p # <<".">>)

\* os.path.join(a, b, c) relative to UPLOADS_DIR, which is also what
\* os.path.relpath(root, UPLOADS_DIR) returns for that directory
PathJoin(a, b, c) == a \o <<Sep>> \o b \o <<Sep>> \o c

BatchPrefix == <<"b","a","t","c","h","_">>
DeptPrefix == <<"d","e","p","a","r","t","m","e","n","t","_">>
StudentPrefix == <<"s","t","u","d","e","n","t","_">>
UnknownKey == <<"U","n","k","n","o","w","n">>

\* ------------------------------------------------------------------------
\* Request parameters used as inputs: (batch_name, department_name,
\* student_name) as typed by the client
\* ------------------------------------------------------------------------
NameA == <<"A">>
NameB == <<"B">>
NameCarol == <<"C","a","r","o","l">>
NameDave == <<"D","a","v","e">>
NameBatch1 == <<"b","a","t","c","h","_","1">>

Carol == <<NameA, NameB, NameCarol>>
Dave == <<NameA, NameB, NameDave>>
Carol1 == <<NameBatch1, NameB, NameCarol>>

RegInputs == {Carol, Dave, Carol1}

\* src/app.py:768-771: the sample directory of a registration, relative to
\* UPLOADS_DIR
DestDir(batch_name, department_name, student_name) ==
    PathJoin(BatchPrefix \o sanitize(batch_name),
             DeptPrefix \o sanitize(department_name),
             StudentPrefix \o sanitize(student_name))

KeyOf(inp) == DestDir(inp[1], inp[2], inp[3])

\* ------------------------------------------------------------------------
\* State
\* ------------------------------------------------------------------------
VARIABLES
    registration_count,     \* src/app.py:41
    registration_complete,  \* src/app.py:42, 46-47
    global_lock,            \* src/app.py:43: Free or the thread holding it
    reg,                    \* the capture streams (video_feed_register.gen)
    samples,                \* the .jpg files under UPLOADS_DIR
    now,                    \* time.time() in half-seconds
    train_req,              \* the train_model requests
    trainer,                \* the threads running train_model_process
    model_yml,              \* the file MODEL_YML
    metadata_npz,           \* the file METADATA_NPZ
    att,                    \* the attendance streams (video_feed_attendance.gen)
    attendance_marked_set,  \* src/app.py:52
    ledger,                 \* the rows of the file CSV_ATTENDANCE_PATH
    today,                  \* datetime.now().date()
    status_response         \* the last answer of registration_status

vars ==
    <<registration_count, registration_complete, global_lock, reg, samples,
      now, train_req, trainer, model_yml, metadata_npz, att,
      attendance_marked_set, ledger, today, status_response>>

trainVars == <<train_req, trainer, model_yml, metadata_npz>>
attVars == <<att, attendance_marked_set, ledger, today>>

RegIds == 1 .. MaxRegSessions
TrainerIds == 1 .. MaxTrainers
AttIds == 1 .. MaxAttSessions
TrainReqIds == 1 .. MaxTrainReqs
RecIds == 1 .. MaxRecStreams

\* a file that does not exist, and a file holding a label map
NoFile == [exists |-> FALSE, content |-> <<>>]
FileOf(content) == [exists |-> TRUE, content |-> content]

\* global_lock when no thread holds it
Free == <<"free", 0>>

\* ------------------------------------------------------------------------
\* Registration: video_feed_register and its generator
\* ------------------------------------------------------------------------
\* no stream: before the request, and after the generator has ended.  inp is
\* the request parameters, cap tells whether the generator holds an opened
\* cv2.VideoCapture, text is the completion text drawn on the frame
RegIdle ==
    [pc |-> "idle", inp |-> <<>>, dest_dir |-> <<>>, written |-> 0,
     cap |-> FALSE, text |-> FALSE]

\* the generator ends without running the finally clause
Leave_NoFinally(rec) == [rec EXCEPT !.pc = "idle"]

\* src/app.py:829-831, 940-942: the loop is left (break, exception,
\* GeneratorExit at the yield, camera not opened): the finally clause is next
Leave(rec) == [rec EXCEPT !.pc = "finally"]

\* src/app.py:809: face_<registration_count>_<int(time.time())>.jpg in dest_dir
SampleFile(dest_dir, count, t) == [dir |-> dest_dir, idx |-> count, ts |-> t \div 2]

\* src/app.py:806: the capture loop saves a sample only below N
MayCapture(count) == count < N

\* src/app.py:819, 827: the capture loop is complete at N
CaptureComplete(count) == count >= N

\* the counter stepped by two for every saved sample
NextCount_ByTwo(count) == count + 2

\* src/app.py:811: registration_count += 1
NextCount(count) == count + 1

\* src/app.py:760-776, 833: the request handler; the generator it returns has
\* not run yet
video_feed_register(s, inp) ==
    /\ reg[s].pc = "idle"
    /\ global_lock = Free
    /\ registration_count' = 0
    /\ reg' = [reg EXCEPT ![s] =
                 [RegIdle EXCEPT !.pc = "open", !.inp = inp,
                                 !.dest_dir = DestDir(inp[1], inp[2], inp[3])]]
    /\ UNCHANGED <<registration_complete, global_lock, samples, now>>
    /\ UNCHANGED trainVars
    /\ UNCHANGED attVars
    /\ UNCHANGED status_response

\* src/app.py:780-783: the camera is opened and the detector built (neither
\* call is taken to raise); the loop is entered only if cap.isOpened(),
\* otherwise the finally clause runs at once
RegOpen(s) ==
    /\ reg[s].pc = "open"
    /\ \E opened \in BOOLEAN :
         reg' = [reg EXCEPT ![s] =
                   IF opened THEN [@ EXCEPT !.pc = "frame", !.cap = TRUE]
                             ELSE Leave(@)]
    /\ UNCHANGED <<registration_count, registration_complete, global_lock,
                   samples, now>>
    /\ UNCHANGED trainVars
    /\ UNCHANGED attVars
    /\ UNCHANGED status_response

FrameKinds == {"empty", "cvt_error", "detector_error", "face", "no_face"}

\* src/app.py:784-796, 815-817, 829-832: one frame is read, converted and
\* searched for faces; current_count is read under the lock
RegFrame(s) ==
    /\ reg[s].pc = "frame"
    /\ \E kind \in FrameKinds :
         CASE kind \in {"empty", "cvt_error"} ->
                \* logged, continue
                reg' = reg
           [] kind = "detector_error" ->
                \* mp_face.process raises outside the inner try: the outer
                \* except logs it and the finally clause runs
                reg' = [reg EXCEPT ![s] = Leave(@)]
           [] kind = "face" ->
                /\ global_lock = Free
                /\ reg' = [reg EXCEPT ![s].pc = "save", ![s].text = FALSE]
           [] kind = "no_face" ->
                /\ global_lock = Free
                /\ reg' = [reg EXCEPT ![s].pc = "annot", ![s].text = FALSE]
    /\ UNCHANGED <<registration_count, registration_complete, global_lock,
                   samples, now>>
    /\ UNCHANGED trainVars
    /\ UNCHANGED attVars
    /\ UNCHANGED status_response

\* cv2.imwrite writes the file or raises (an empty crop)
WriteOutcomes == {"written", "error"}

\* src/app.py:797-813, 829-832: the first detection is cropped and saved under
\* the lock; the lock is still held when time.sleep is reached
RegSave(s) ==
    /\ reg[s].pc = "save"
    /\ global_lock = Free
    /\ IF MayCapture(registration_count)
       THEN /\ now < MaxTime
            /\ \E outcome \in WriteOutcomes :
                 CASE outcome = "written" ->
                        /\ samples' = samples \cup
                              {SampleFile(reg[s].dest_dir, registration_count, now)}
                        /\ registration_count' = NextCount(registration_count)
                        /\ global_lock' = <<"reg", s>>
                        /\ reg' = [reg EXCEPT ![s].pc = "sleep",
                                              ![s].written = @ + 1]
                   [] outcome = "error" ->
                        \* the with statement releases the lock, the outer
                        \* except logs it and the finally clause runs
                        /\ reg' = [reg EXCEPT ![s] = Leave(@)]
                        /\ UNCHANGED <<registration_count, global_lock, samples>>
       ELSE /\ reg' = [reg EXCEPT ![s].pc = "annot"]
            /\ UNCHANGED <<registration_count, global_lock, samples>>
    /\ UNCHANGED <<registration_complete, now>>
    /\ UNCHANGED trainVars
    /\ UNCHANGED attVars
    /\ UNCHANGED status_response

\* src/app.py:814: time.sleep(0.5) inside the with block, then the lock is
\* released
RegSleep(s) ==
    /\ reg[s].pc = "sleep"
    /\ global_lock = <<"reg", s>>
    /\ now' = now + 1
    /\ global_lock' = Free
    /\ reg' = [reg EXCEPT ![s].pc = "annot"]
    /\ UNCHANGED <<registration_count, registration_complete, samples>>
    /\ UNCHANGED trainVars
    /\ UNCHANGED attVars
    /\ UNCHANGED status_response

\* src/app.py:818-824: the completion text is drawn under the lock, the frame
\* is encoded and the generator suspends at yield
RegAnnotate(s) ==
    /\ reg[s].pc = "annot"
    /\ global_lock = Free
    /\ reg' = [reg EXCEPT ![s].pc = "yield",
                          ![s].text = CaptureComplete(registration_count)]
    /\ UNCHANGED <<registration_count, registration_complete, global_lock,
                   samples, now>>
    /\ UNCHANGED trainVars
    /\ UNCHANGED attVars
    /\ UNCHANGED status_response

\* src/app.py:824-825, 831-832: the consumer asks for the next frame, or
\* closes the stream (GeneratorExit at the yield, then the finally clause)
RegYield(s) ==
    /\ reg[s].pc = "yield"
    /\ \E closed \in BOOLEAN :
         reg' = [reg EXCEPT ![s] = IF closed THEN Leave(@)
                                             ELSE [@ EXCEPT !.pc = "check"]]
    /\ UNCHANGED <<registration_count, registration_complete, global_lock,
                   samples, now>>
    /\ UNCHANGED trainVars
    /\ UNCHANGED attVars
    /\ UNCHANGED status_response

\* src/app.py:826-828: break once the counter has reached N
RegCheck(s) ==
    /\ reg[s].pc = "check"
    /\ global_lock = Free
    /\ reg' = [reg EXCEPT ![s] =
                 IF CaptureComplete(registration_count)
                 THEN Leave(@) ELSE [@ EXCEPT !.pc = "frame"]]
    /\ UNCHANGED <<registration_count, registration_complete, global_lock,
                   samples, now>>
    /\ UNCHANGED trainVars
    /\ UNCHANGED attVars
    /\ UNCHANGED status_response

\* src/app.py:831-832: finally: cap.release(); the generator has ended
RegRelease(s) ==
    /\ reg[s].pc = "finally"
    /\ reg' = [reg EXCEPT ![s] = RegIdle]
    /\ UNCHANGED <<registration_count, registration_complete, global_lock,
                   samples, now>>
    /\ UNCHANGED trainVars
    /\ UNCHANGED attVars
    /\ UNCHANGED status_response

\* no request to registration_status has been answered
NoResponse == [count |-> -1, complete |-> FALSE]

\* the answer reports a model although the flag is not set
StatusJson_AlwaysComplete(count, complete) == [count |-> count, complete |-> TRUE]

\* src/app.py:840: the body of the answer
StatusJson(count, complete) == [count |-> count, complete |-> complete]

\* src/app.py:835-840: both values are read in one with block
registration_status ==
    /\ global_lock = Free
    /\ status_response' = StatusJson(registration_count, registration_complete)
    /\ UNCHANGED <<registration_count, registration_complete, global_lock, reg,
                   samples, now>>
    /\ UNCHANGED trainVars
    /\ UNCHANGED attVars

\* src/app.py:947-952
reset_registration ==
    /\ global_lock = Free
    /\ registration_count' = 0
    /\ UNCHANGED <<registration_complete, global_lock, reg, samples, now>>
    /\ UNCHANGED trainVars
    /\ UNCHANGED attVars
    /\ UNCHANGED status_response

\* ------------------------------------------------------------------------
\* Training: train_face_recognizer, train_model_process, train_model
\* ------------------------------------------------------------------------
\* A Python dict is a sequence of <<key, value>> pairs in insertion order.
DictHas(d, k) == \E i \in 1 .. Len(d) : d[i][1] = k

DictGet(d, k) == d[CHOOSE i \in 1 .. Len(d) : d[i][1] = k][2]

DictKeys(d) == {d[i][1] : i \in 1 .. Len(d)}

DictValues(d) == {d[i][2] : i \in 1 .. Len(d)}

\* d[k] = v
DictSet(d, k, v) ==
    IF DictHas(d, k)
    THEN [i \in 1 .. Len(d) |-> IF d[i][1] = k THEN <<k, v>> ELSE d[i]]
    ELSE Append(d, <<k, v>>)

\* the label counter is not advanced after an assignment
AssignLabel_NoIncrement(st, composite_label) ==
    IF ~DictHas(st[1], composite_label)
    THEN <<DictSet(st[1], composite_label, st[2]), st[2]>>
    ELSE st

\* src/app.py:189-193: one readable image of directory composite_label; st is
\* <<label_map, current_label>>
AssignLabel(st, composite_label) ==
    IF ~DictHas(st[1], composite_label)
    THEN <<DictSet(st[1], composite_label, st[2]), st[2] + 1>>
    ELSE st

\* src/app.py:182-195: the loop over the readable images, in walk order
RECURSIVE TrainLoop(_, _)
TrainLoop(dirs, st) ==
    IF dirs = <<>> THEN st
    ELSE TrainLoop(Tail(dirs), AssignLabel(st, Head(dirs)))

Perms(S) ==
    {f \in [1 .. Cardinality(S) -> S] :
        \A i, j \in 1 .. Cardinality(S) : f[i] = f[j] => i = j}

RECURSIVE Repeat(_, _)
Repeat(x, n) == IF n = 0 THEN <<>> ELSE <<x>> \o Repeat(x, n - 1)

\* os.walk yields every directory once, with all its files: the directory of
\* each readable image, directory by directory in the order walked
RECURSIVE WalkDirs(_, _)
WalkDirs(order, readable) ==
    IF order = <<>> THEN <<>>
    ELSE Repeat(Head(order), Cardinality({f \in readable : f.dir = Head(order)}))
            \o WalkDirs(Tail(order), readable)

\* src/app.py:177-195: label_map after the walk
WalkLabelMap(order, readable) == TrainLoop(WalkDirs(order, readable), <<<<>>, 0>>)[1]

\* faces holds the directories of the images appended to the list faces
TrainerIdle == [pc |-> "idle", label_map |-> <<>>, faces |-> {}]

\* src/app.py:207-210, 171-201: the thread walks UPLOADS_DIR; cv2.imread may
\* return None for any file; with no image left it returns (None, None),
\* otherwise the recognizer is trained.  What follows depends on the
\* unreadable files only through the directories left with a readable image,
\* so the files that cannot be read are chosen directory by directory.
TrainerWalk(t) ==
    /\ trainer[t].pc = "start"
    /\ \E dirs \in SUBSET {f.dir : f \in samples} :
         \E order \in Perms(dirs) :
            LET readable == {f \in samples : f.dir \in dirs} IN
            IF Cardinality(readable) = 0
            THEN trainer' = [trainer EXCEPT ![t].pc = "nodata"]
            ELSE trainer' = [trainer EXCEPT ![t] =
                    [pc |-> "write_yml",
                     label_map |-> WalkLabelMap(order, readable),
                     faces |-> {f.dir : f \in readable}]]
    /\ UNCHANGED <<registration_count, registration_complete, global_lock, reg,
                   samples, now, train_req, model_yml, metadata_npz>>
    /\ UNCHANGED attVars
    /\ UNCHANGED status_response

\* src/app.py:202: recognizer.write(MODEL_YML); the trained recognizer knows
\* the labels of this run
TrainerWriteYml(t) ==
    /\ trainer[t].pc = "write_yml"
    /\ model_yml' = FileOf(trainer[t].label_map)
    /\ trainer' = [trainer EXCEPT ![t].pc = "write_npz"]
    /\ UNCHANGED <<registration_count, registration_complete, global_lock, reg,
                   samples, now, train_req, metadata_npz>>
    /\ UNCHANGED attVars
    /\ UNCHANGED status_response

\* src/app.py:203-205: np.savez(METADATA_NPZ, label_map=label_map)
TrainerWriteNpz(t) ==
    /\ trainer[t].pc = "write_npz"
    /\ metadata_npz' = FileOf(trainer[t].label_map)
    /\ trainer' = [trainer EXCEPT ![t] = [TrainerIdle EXCEPT !.pc = "flag"]]
    /\ UNCHANGED <<registration_count, registration_complete, global_lock, reg,
                   samples, now, train_req, model_yml>>
    /\ UNCHANGED attVars
    /\ UNCHANGED status_response

\* src/app.py:211-214: recognizer is not None; the thread ends
TrainerSetComplete(t) ==
    /\ trainer[t].pc = "flag"
    /\ global_lock = Free
    /\ registration_complete' = TRUE
    /\ trainer' = [trainer EXCEPT ![t] = TrainerIdle]
    /\ UNCHANGED <<registration_count, global_lock, reg, samples, now,
                   train_req, model_yml, metadata_npz>>
    /\ UNCHANGED attVars
    /\ UNCHANGED status_response

\* the flag is cleared when the run has found no image
TrainerNoData_ClearsFlag(t) ==
    /\ trainer[t].pc = "nodata"
    /\ global_lock = Free
    /\ registration_complete' = FALSE
    /\ trainer' = [trainer EXCEPT ![t] = TrainerIdle]
    /\ UNCHANGED <<registration_count, global_lock, reg, samples, now,
                   train_req, model_yml, metadata_npz>>
    /\ UNCHANGED attVars
    /\ UNCHANGED status_response

\* the flag is set without testing recognizer
TrainerNoData_SetsFlag(t) ==
    /\ trainer[t].pc = "nodata"
    /\ global_lock = Free
    /\ registration_complete' = TRUE
    /\ trainer' = [trainer EXCEPT ![t] = TrainerIdle]
    /\ UNCHANGED <<registration_count, global_lock, reg, samples, now,
                   train_req, model_yml, metadata_npz>>
    /\ UNCHANGED attVars
    /\ UNCHANGED status_response

\* src/app.py:197-199, 215-216: recognizer is None; the thread ends
TrainerNoData(t) ==
    /\ trainer[t].pc = "nodata"
    /\ trainer' = [trainer EXCEPT ![t] = TrainerIdle]
    /\ UNCHANGED <<registration_count, registration_complete, global_lock, reg,
                   samples, now, train_req, model_yml, metadata_npz>>
    /\ UNCHANGED attVars
    /\ UNCHANGED status_response

\* the refusal tested against N - 1
NotEnoughCaptures_OffByOne(count) == count < N - 1

\* src/app.py:846: the condition under which train_model refuses
NotEnoughCaptures(count) == count < N

\* the refusal returns without releasing the lock
TrainModelCheck_KeepsLock(r) ==
    /\ train_req[r] \in {"idle", "not_enough", "initiated"}
    /\ global_lock = Free
    /\ train_req' = [train_req EXCEPT ![r] =
                       IF NotEnoughCaptures(registration_count)
                       THEN "not_enough" ELSE "launch"]
    /\ global_lock' = IF NotEnoughCaptures(registration_count)
                      THEN <<"train_model", r>> ELSE Free
    /\ UNCHANGED <<registration_count, registration_complete, reg,
                   samples, now, trainer, model_yml, metadata_npz>>
    /\ UNCHANGED attVars
    /\ UNCHANGED status_response

\* src/app.py:843-847: the counter is checked under the lock
TrainModelCheck(r) ==
    /\ train_req[r] \in {"idle", "not_enough", "initiated"}
    /\ global_lock = Free
    /\ train_req' = [train_req EXCEPT ![r] =
                       IF NotEnoughCaptures(registration_count)
                       THEN "not_enough" ELSE "launch"]
    /\ UNCHANGED <<registration_count, registration_complete, global_lock, reg,
                   samples, now, trainer, model_yml, metadata_npz>>
    /\ UNCHANGED attVars
    /\ UNCHANGED status_response

\* src/app.py:848-849: the thread is started and the acknowledgment returned
TrainModelLaunch(r) ==
    /\ train_req[r] = "launch"
    /\ \E t \in TrainerIds :
         /\ trainer[t].pc = "idle"
         /\ trainer' = [trainer EXCEPT ![t].pc = "start"]
    /\ train_req' = [train_req EXCEPT ![r] = "initiated"]
    /\ UNCHANGED <<registration_count, registration_complete, global_lock, reg,
                   samples, now, model_yml, metadata_npz>>
    /\ UNCHANGED attVars
    /\ UNCHANGED status_response

\* ------------------------------------------------------------------------
\* The ledger: load_today_attendance, mark_attendance
\* ------------------------------------------------------------------------
\* A row is the list of its four fields; the fields written are made of word
\* characters, so csv.writer quotes nothing and csv.reader returns the list
\* that was written.  The timestamp field is modelled by its date: the time
\* of day is written but never read back.
Timestamp(day) == [date |-> day]

\* src/app.py:91
CompositeOf(batch, dept, student) ==
    PathJoin(BatchPrefix \o batch, DeptPrefix \o dept, StudentPrefix \o student)

\* src/app.py:72-93: the composite labels of the rows dated day
load_today_attendance(rows, day) ==
    {CompositeOf(rows[i][2], rows[i][1], rows[i][3]) :
        i \in {j \in 1 .. Len(rows) : Len(rows[j]) >= 4 /\ rows[j][4].date = day}}

\* src/app.py:225-229: None when the label does not have three parts
LabelParts(composite_label) == NormSplit(composite_label)

\* src/app.py:230-232: the prefix is removed with str.replace
StripPrefix(part, prefix) == ReplaceWithEmpty(part, prefix)

\* src/app.py:229-236: the row mark_attendance appends for a label of three
\* parts
AttendanceRow(composite_label, day) ==
    LET parts == LabelParts(composite_label)
        batch_name == StripPrefix(parts[1], BatchPrefix)
        dept_name == StripPrefix(parts[2], DeptPrefix)
        student_name == StripPrefix(parts[3], StudentPrefix)
    IN  <<dept_name, batch_name, student_name, Timestamp(day)>>

\* ------------------------------------------------------------------------
\* Attendance: video_feed_attendance and its generator
\* ------------------------------------------------------------------------
\* src/app.py:864: {v: k for k, v in label_map.items()}
RECURSIVE InvertFrom(_, _)
InvertFrom(label_map, inv) ==
    IF label_map = <<>> THEN inv
    ELSE InvertFrom(Tail(label_map),
                    DictSet(inv, Head(label_map)[2], Head(label_map)[1]))

InvLabelMap(label_map) == InvertFrom(label_map, <<>>)

\* src/app.py:908: inv_label_map.get(label_pred, "Unknown")
PredictedComposite(inv_label_map, label_pred) ==
    IF DictHas(inv_label_map, label_pred)
    THEN DictGet(inv_label_map, label_pred) ELSE UnknownKey

\* a tie with the threshold is accepted
Matched_AcceptTie(confidence) == confidence <= RECOGNITION_THRESHOLD

\* src/app.py:909
Matched(confidence) == confidence < RECOGNITION_THRESHOLD

\* the confidences the recognizer may return, around the threshold
Confidences == {RECOGNITION_THRESHOLD - 1, RECOGNITION_THRESHOLD, RECOGNITION_THRESHOLD + 1}

\* what the loop did with the last detection: the confidence returned by
\* predict, the composite label looked up, the text drawn on the frame and
\* whether speak was called
Outcome(confidence, predicted_composite, status_text, spoken) ==
    [conf |-> confidence, who |-> predicted_composite, status |-> status_text,
     said |-> spoken]

NoFace == Outcome(-1, <<>>, "none", FALSE)

\* cap tells whether the generator holds an opened cv2.VideoCapture
AttIdle ==
    [pc |-> "idle", loaded |-> FALSE, model |-> <<>>, label_map |-> <<>>,
     inv_label_map |-> <<>>, faces |-> 0, cur |-> <<>>, last |-> NoFace,
     cap |-> FALSE]

\* src/app.py:857-869: the model is loaded when the flag is set or both files
\* exist; reading a missing file raises and leaves recognizer = None
ModelLoads(complete, yml, npz) ==
    /\ complete \/ (yml.exists /\ npz.exists)
    /\ yml.exists
    /\ npz.exists

\* src/app.py:851-871, 944: the request handler; the generator it returns has
\* not run yet.  recognizer.read and np.load may also raise on a file that
\* exists (one that is damaged or being written): the except clause at
\* 865-867 then leaves recognizer = None as well
video_feed_attendance(a) ==
    /\ att[a].pc = "idle"
    /\ attendance_marked_set' = load_today_attendance(ledger, today)
    /\ \E read_ok \in BOOLEAN :
         att' = [att EXCEPT ![a] =
                   IF ModelLoads(registration_complete, model_yml, metadata_npz)
                      /\ read_ok
                   THEN [AttIdle EXCEPT !.pc = "open", !.loaded = TRUE,
                                        !.model = model_yml.content,
                                        !.label_map = metadata_npz.content,
                                        !.inv_label_map = InvLabelMap(metadata_npz.content)]
                   ELSE [AttIdle EXCEPT !.pc = "open"]]
    /\ UNCHANGED <<registration_count, registration_complete, global_lock, reg,
                   samples, now, ledger, today>>
    /\ UNCHANGED trainVars
    /\ UNCHANGED status_response

\* src/app.py:874-877, 942-943
AttOpen(a) ==
    /\ att[a].pc = "open"
    /\ \E opened \in BOOLEAN :
         att' = [att EXCEPT ![a] =
                   IF opened THEN [@ EXCEPT !.pc = "frame", !.cap = TRUE]
                             ELSE Leave(@)]
    /\ UNCHANGED <<registration_count, registration_complete, global_lock, reg,
                   samples, now, attendance_marked_set, ledger, today>>
    /\ UNCHANGED trainVars
    /\ UNCHANGED status_response

\* the detections left in the frame are dropped and the frame is emitted
NextFace_DropsRest(rec, last) ==
    [rec EXCEPT !.pc = "yield", !.faces = 0, !.cur = <<>>, !.last = last]

\* the session goes on to the next detection of the frame, or encodes the
\* frame and suspends at yield (src/app.py:889, 936-939)
NextFace(rec, last) ==
    [rec EXCEPT !.pc = IF rec.faces > 1 THEN "face" ELSE "yield",
                !.faces = rec.faces - 1,
                !.cur = <<>>,
                !.last = last]

\* src/app.py:878-888, 936-943: one frame is read, converted and searched for
\* faces
AttFrame(a) ==
    /\ att[a].pc = "frame"
    /\ \E kind \in FrameKinds, n \in 1 .. MaxFaces :
         CASE kind \in {"empty", "cvt_error"} ->
                att' = att
           [] kind = "detector_error" ->
                att' = [att EXCEPT ![a] = Leave(@)]
           [] kind = "face" ->
                att' = [att EXCEPT ![a] = [@ EXCEPT !.pc = "face", !.faces = n,
                                                    !.last = NoFace]]
           [] kind = "no_face" ->
                att' = [att EXCEPT ![a] = [@ EXCEPT !.pc = "yield", !.last = NoFace]]
    /\ UNCHANGED <<registration_count, registration_complete, global_lock, reg,
                   samples, now, attendance_marked_set, ledger, today>>
    /\ UNCHANGED trainVars
    /\ UNCHANGED status_response

PredictOutcomes == {"cvt_error", "predict_error", "predicted"}

\* every matched face is marked again
NotYetMarked_Always(predicted_composite, marked) == TRUE

\* src/app.py:917
NotYetMarked(predicted_composite, marked) == predicted_composite \notin marked

\* prediction is attempted without a recognizer
Recognises_Always(loaded) == TRUE

\* src/app.py:896: if recognizer is not None
Recognises(loaded) == loaded

\* src/app.py:889-917, 921-935: one detection is recognised, up to the call
\* of mark_attendance
AttFace(a) ==
    /\ att[a].pc = "face"
    /\ IF ~Recognises(att[a].loaded)
       THEN att' = [att EXCEPT ![a] =
                      NextFace(@, Outcome(-1, <<>>, "Model Not Trained", FALSE))]
       ELSE \E outcome \in PredictOutcomes :
              IF outcome # "predicted"
              THEN \* logged, continue with the next detection
                   att' = [att EXCEPT ![a] =
                             NextFace(@, Outcome(-1, <<>>, "skipped", FALSE))]
              ELSE \E label_pred \in DictValues(att[a].model), confidence \in Confidences :
                     LET predicted_composite ==
                            PredictedComposite(att[a].inv_label_map, label_pred)
                     IN  IF Matched(confidence)
                         THEN IF NotYetMarked(predicted_composite, attendance_marked_set)
                              THEN att' = [att EXCEPT ![a] =
                                      [@ EXCEPT !.pc = "mark",
                                                !.cur = predicted_composite,
                                                !.last = Outcome(confidence,
                                                            predicted_composite,
                                                            "marking", FALSE)]]
                              ELSE att' = [att EXCEPT ![a] =
                                      NextFace(@, Outcome(confidence,
                                                     predicted_composite,
                                                     "Already Marked", FALSE))]
                         ELSE att' = [att EXCEPT ![a] =
                                      NextFace(@, Outcome(confidence,
                                                     predicted_composite,
                                                     "Face Not Recognized", FALSE))]
    /\ UNCHANGED <<registration_count, registration_complete, global_lock, reg,
                   samples, now, attendance_marked_set, ledger, today>>
    /\ UNCHANGED trainVars
    /\ UNCHANGED status_response

\* src/app.py:918, 225-236: mark_attendance up to the row written; a label
\* that does not have three parts returns before anything is written, and
\* the caller goes on to lines 919-920
AttMark(a) ==
    /\ att[a].pc = "mark"
    /\ IF Len(LabelParts(att[a].cur)) # 3
       THEN /\ att' = [att EXCEPT ![a] =
                        NextFace(@, [@.last EXCEPT !.status = "Attendance Marked",
                                                   !.said = TRUE])]
            /\ UNCHANGED ledger
       ELSE /\ Len(ledger) < MaxLedger
            /\ ledger' = Append(ledger, AttendanceRow(att[a].cur, today))
            /\ att' = [att EXCEPT ![a].pc = "add"]
    /\ UNCHANGED <<registration_count, registration_complete, global_lock, reg,
                   samples, now, attendance_marked_set, today>>
    /\ UNCHANGED trainVars
    /\ UNCHANGED status_response

\* src/app.py:237-238, 919-927: the label joins the marked set, the frame is
\* annotated and speak is called
AttAdd(a) ==
    /\ att[a].pc = "add"
    /\ attendance_marked_set' = attendance_marked_set \cup {att[a].cur}
    /\ att' = [att EXCEPT ![a] =
                 NextFace(@, [@.last EXCEPT !.status = "Attendance Marked",
                                            !.said = TRUE])]
    /\ UNCHANGED <<registration_count, registration_complete, global_lock, reg,
                   samples, now, ledger, today>>
    /\ UNCHANGED trainVars
    /\ UNCHANGED status_response

\* the model files are read again before every frame
AttYield_Reloads(a) ==
    /\ att[a].pc = "yield"
    /\ \E closed \in BOOLEAN :
         att' = [att EXCEPT ![a] =
                   IF closed THEN Leave(@)
                   ELSE [@ EXCEPT !.pc = "frame",
                                  !.model = model_yml.content,
                                  !.label_map = metadata_npz.content,
                                  !.inv_label_map = InvLabelMap(metadata_npz.content)]]
    /\ UNCHANGED <<registration_count, registration_complete, global_lock, reg,
                   samples, now, attendance_marked_set, ledger, today>>
    /\ UNCHANGED trainVars
    /\ UNCHANGED status_response

\* src/app.py:938-939, 942-943: the consumer asks for the next frame, or
\* closes the stream
AttYield(a) ==
    /\ att[a].pc = "yield"
    /\ \E closed \in BOOLEAN :
         att' = [att EXCEPT ![a] = IF closed THEN Leave(@)
                                             ELSE [@ EXCEPT !.pc = "frame"]]
    /\ UNCHANGED <<registration_count, registration_complete, global_lock, reg,
                   samples, now, attendance_marked_set, ledger, today>>
    /\ UNCHANGED trainVars
    /\ UNCHANGED status_response

\* src/app.py:942-943: finally: cap.release(); the generator has ended
AttRelease(a) ==
    /\ att[a].pc = "finally"
    /\ att' = [att EXCEPT ![a] = AttIdle]
    /\ UNCHANGED <<registration_count, registration_complete, global_lock, reg,
                   samples, now, attendance_marked_set, ledger, today>>
    /\ UNCHANGED trainVars
    /\ UNCHANGED status_response

\* midnight passes
NextDay ==
    /\ today < MaxDay
    /\ today' = today + 1
    /\ UNCHANGED <<registration_count, registration_complete, global_lock, reg,
                   samples, now, att, attendance_marked_set, ledger>>
    /\ UNCHANGED trainVars
    /\ UNCHANGED status_response

\* ------------------------------------------------------------------------
\* Initial states
\* ------------------------------------------------------------------------
\* src/app.py:41-52: the state of a process started on a disk holding the
\* sample files store, the model files yml and npz, and the ledger rows
Startup(store, yml, npz, rows, day, t) ==
    /\ registration_count = 0
    /\ registration_complete = (yml.exists /\ npz.exists)
    /\ global_lock = Free
    /\ reg = [s \in RegIds |-> RegIdle]
    /\ samples = store
    /\ now = t
    /\ train_req = [r \in TrainReqIds |-> "idle"]
    /\ trainer = [t2 \in TrainerIds |-> TrainerIdle]
    /\ model_yml = yml
    /\ metadata_npz = npz
    /\ att = [a \in AttIds |-> AttIdle]
    /\ attendance_marked_set = {}
    /\ ledger = rows
    /\ today = day
    /\ status_response = NoResponse

\* the flag is set at startup as soon as the classifier file exists
Restart_YmlOnly ==
    /\ registration_count' = 0
    /\ registration_complete' = model_yml.exists
    /\ global_lock' = Free
    /\ reg' = [s \in RegIds |-> RegIdle]
    /\ train_req' = [r \in TrainReqIds |-> "idle"]
    /\ trainer' = [t \in TrainerIds |-> TrainerIdle]
    /\ att' = [a \in AttIds |-> AttIdle]
    /\ attendance_marked_set' = {}
    /\ status_response' = NoResponse
    /\ UNCHANGED <<samples, now, model_yml, metadata_npz, ledger, today>>

\* the process is stopped and started again: the files stay, the memory is
\* initialised as at src/app.py:41-52
Restart ==
    /\ registration_count' = 0
    /\ registration_complete' = (model_yml.exists /\ metadata_npz.exists)
    /\ global_lock' = Free
    /\ reg' = [s \in RegIds |-> RegIdle]
    /\ train_req' = [r \in TrainReqIds |-> "idle"]
    /\ trainer' = [t \in TrainerIds |-> TrainerIdle]
    /\ att' = [a \in AttIds |-> AttIdle]
    /\ attendance_marked_set' = {}
    /\ status_response' = NoResponse
    /\ UNCHANGED <<samples, now, model_yml, metadata_npz, ledger, today>>

\* a first start, with no file on disk
Init == Startup({}, NoFile, NoFile, <<>>, 0, 0)

CaptureInputs == {Carol}

NextCapture ==
    \/ \E s \in RegIds, inp \in CaptureInputs : video_feed_register(s, inp)
    \/ \E s \in RegIds : RegOpen(s)
    \/ \E s \in RegIds : RegFrame(s)
    \/ \E s \in RegIds : RegSave(s)
    \/ \E s \in RegIds : RegSleep(s)
    \/ \E s \in RegIds : RegAnnotate(s)
    \/ \E s \in RegIds : RegYield(s)
    \/ \E s \in RegIds : RegCheck(s)
    \/ \E s \in RegIds : RegRelease(s)
    \/ reset_registration

\* the capture streams and the counter reset
SpecCapture == Init /\ [][NextCapture]_vars

TrainRegIds == {1}

NextTrain ==
    \/ \E s \in TrainRegIds, inp \in CaptureInputs : video_feed_register(s, inp)
    \/ \E s \in TrainRegIds : RegOpen(s)
    \/ \E s \in TrainRegIds : RegFrame(s)
    \/ \E s \in TrainRegIds : RegSave(s)
    \/ \E s \in TrainRegIds : RegSleep(s)
    \/ \E s \in TrainRegIds : RegAnnotate(s)
    \/ \E s \in TrainRegIds : RegYield(s)
    \/ \E s \in TrainRegIds : RegCheck(s)
    \/ \E s \in TrainRegIds : RegRelease(s)
    \/ \E r \in TrainReqIds : TrainModelCheck(r)
    \/ \E r \in TrainReqIds : TrainModelLaunch(r)
    \/ \E t \in TrainerIds : TrainerWalk(t)
    \/ \E t \in TrainerIds : TrainerWriteYml(t)
    \/ \E t \in TrainerIds : TrainerWriteNpz(t)
    \/ \E t \in TrainerIds : TrainerSetComplete(t)
    \/ \E t \in TrainerIds : TrainerNoData(t)

\* one capture stream, the training trigger and the training threads
SpecTrain == Init /\ [][NextTrain]_vars

\* the sample files the disk may hold when a training thread starts
LabelFiles ==
    {SampleFile(KeyOf(Carol), 0, 0), SampleFile(KeyOf(Carol), 1, 0),
     SampleFile(KeyOf(Dave), 0, 0), SampleFile(KeyOf(Carol1), 0, 0)}

\* a training thread has been started by train_model and the counter has
\* been reset since
InitLabels ==
    \E store \in SUBSET LabelFiles :
       /\ registration_count = 0
       /\ registration_complete = FALSE
       /\ global_lock = Free
       /\ reg = [s \in RegIds |-> RegIdle]
       /\ samples = store
       /\ now = 0
       /\ train_req = [r \in TrainReqIds |-> "initiated"]
       /\ trainer = [t \in TrainerIds |-> IF t = 1 THEN [TrainerIdle EXCEPT !.pc = "start"]
                                                    ELSE TrainerIdle]
       /\ model_yml = NoFile
       /\ metadata_npz = NoFile
       /\ att = [a \in AttIds |-> AttIdle]
       /\ attendance_marked_set = {}
       /\ ledger = <<>>
       /\ today = 0
       /\ status_response = NoResponse

NextLabels ==
    \/ \E t \in TrainerIds : TrainerWalk(t)
    \/ \E t \in TrainerIds : TrainerWriteYml(t)
    \/ \E t \in TrainerIds : TrainerWriteNpz(t)
    \/ \E t \in TrainerIds : TrainerSetComplete(t)
    \/ \E t \in TrainerIds : TrainerNoData(t)
    \/ \E a \in AttIds : video_feed_attendance(a)
    \/ \E a \in AttIds : AttOpen(a)
    \/ \E a \in AttIds : AttRelease(a)

\* a training run over a store of several identities, and the attendance
\* streams that load its result
SpecLabels == InitLabels /\ [][NextLabels]_vars

\* the disk after Carol and Carol1 have been registered and the model trained
AttStore == {SampleFile(KeyOf(Carol), 0, 0), SampleFile(KeyOf(Carol1), 0, 0)}

AttLabelMap == WalkLabelMap(<<KeyOf(Carol), KeyOf(Carol1)>>, AttStore)

InitAtt == Startup(AttStore, FileOf(AttLabelMap), FileOf(AttLabelMap), <<>>, 0, 0)

NextAtt ==
    \/ \E a \in AttIds : video_feed_attendance(a)
    \/ \E a \in AttIds : AttOpen(a)
    \/ \E a \in AttIds : AttFrame(a)
    \/ \E a \in AttIds : AttFace(a)
    \/ \E a \in AttIds : AttMark(a)
    \/ \E a \in AttIds : AttAdd(a)
    \/ \E a \in AttIds : AttYield(a)
    \/ \E a \in AttIds : AttRelease(a)
    \/ NextDay
    \/ Restart

\* the attendance streams on a trained model, over midnight and restarts
SpecAtt == InitAtt /\ [][NextAtt]_vars

NextRecognise ==
    \/ \E a \in RecIds : video_feed_attendance(a)
    \/ \E a \in RecIds : AttOpen(a)
    \/ \E a \in RecIds : AttFrame(a)
    \/ \E a \in RecIds : AttFace(a)
    \/ \E a \in RecIds : AttMark(a)
    \/ \E a \in RecIds : AttAdd(a)
    \/ \E a \in RecIds : AttYield(a)
    \/ \E a \in RecIds : AttRelease(a)

\* the attendance streams on a trained model within one day and one run of
\* the server
SpecRecognise == InitAtt /\ [][NextRecognise]_vars

NextStreams ==
    \/ \E s \in TrainRegIds, inp \in CaptureInputs : video_feed_register(s, inp)
    \/ \E s \in TrainRegIds : RegOpen(s)
    \/ \E s \in TrainRegIds : RegFrame(s)
    \/ \E s \in TrainRegIds : RegSave(s)
    \/ \E s \in TrainRegIds : RegSleep(s)
    \/ \E s \in TrainRegIds : RegAnnotate(s)
    \/ \E s \in TrainRegIds : RegYield(s)
    \/ \E s \in TrainRegIds : RegCheck(s)
    \/ \E s \in TrainRegIds : RegRelease(s)
    \/ \E a \in RecIds : video_feed_attendance(a)
    \/ \E a \in RecIds : AttOpen(a)
    \/ \E a \in RecIds : AttFrame(a)
    \/ \E a \in RecIds : AttFace(a)
    \/ \E a \in RecIds : AttYield(a)
    \/ \E a \in RecIds : AttRelease(a)

\* a capture stream and the attendance streams side by side, before any model
\* has been trained
SpecStreams == Init /\ [][NextStreams]_vars

\* the N samples of Carol and the N samples of Dave
RetrainStore ==
    {SampleFile(KeyOf(Carol), i, 0) : i \in 0 .. N - 1}
        \cup {SampleFile(KeyOf(Dave), i, 0) : i \in 0 .. N - 1}

\* the label map of the model trained when Carol alone was registered
OldLabelMap == WalkLabelMap(<<KeyOf(Carol)>>, RetrainStore)

\* a model trained on Carol is on disk, Dave has been captured since and
\* train_model has just started a thread
InitRetrain ==
    /\ registration_count = N
    /\ registration_complete = TRUE
    /\ global_lock = Free
    /\ reg = [s \in RegIds |-> RegIdle]
    /\ samples = RetrainStore
    /\ now = 0
    /\ train_req = [r \in TrainReqIds |-> "initiated"]
    /\ trainer = [t \in TrainerIds |-> IF t = 1 THEN [TrainerIdle EXCEPT !.pc = "start"]
                                                 ELSE TrainerIdle]
    /\ model_yml = FileOf(OldLabelMap)
    /\ metadata_npz = FileOf(OldLabelMap)
    /\ att = [a \in AttIds |-> AttIdle]
    /\ attendance_marked_set = {}
    /\ ledger = <<>>
    /\ today = 0
    /\ status_response = NoResponse

\* the attendance stream that is open while the model is trained again
RetrainAttIds == {1}

NextRetrain ==
    \/ \E t \in TrainerIds : TrainerWalk(t)
    \/ \E t \in TrainerIds : TrainerWriteYml(t)
    \/ \E t \in TrainerIds : TrainerWriteNpz(t)
    \/ \E t \in TrainerIds : TrainerSetComplete(t)
    \/ \E t \in TrainerIds : TrainerNoData(t)
    \/ \E a \in RetrainAttIds : video_feed_attendance(a)
    \/ \E a \in RetrainAttIds : AttOpen(a)
    \/ \E a \in RetrainAttIds : AttFrame(a)
    \/ \E a \in RetrainAttIds : AttFace(a)
    \/ \E a \in RetrainAttIds : AttMark(a)
    \/ \E a \in RetrainAttIds : AttAdd(a)
    \/ \E a \in RetrainAttIds : AttYield(a)
    \/ \E a \in RetrainAttIds : AttRelease(a)

\* the attendance streams while the model is trained again
SpecRetrain == InitRetrain /\ [][NextRetrain]_vars

\* a first start, or a start on the disk of a trained model
InitStatus == Init \/ InitAtt

NextStatus ==
    \/ \E s \in TrainRegIds, inp \in CaptureInputs : video_feed_register(s, inp)
    \/ \E s \in TrainRegIds : RegOpen(s)
    \/ \E s \in TrainRegIds : RegFrame(s)
    \/ \E s \in TrainRegIds : RegSave(s)
    \/ \E s \in TrainRegIds : RegSleep(s)
    \/ \E s \in TrainRegIds : RegAnnotate(s)
    \/ \E s \in TrainRegIds : RegYield(s)
    \/ \E s \in TrainRegIds : RegCheck(s)
    \/ \E s \in TrainRegIds : RegRelease(s)
    \/ reset_registration
    \/ registration_status

\* one capture stream, the counter reset and the status poll
SpecStatus == InitStatus /\ [][NextStatus]_vars

\* student names a client may type that differ in a separator or in case
SanitizeNames ==
    {<<"A", "1">>, <<"A", "-", "1">>, <<"A", " ", "1">>, <<"A", "_", "1">>,
     <<"a", "1">>}

SanitizeInputs == {<<NameA, NameB, n>> : n \in SanitizeNames}

\* the two registrations that are compared
PairIds == {1, 2}

InitSanitize ==
    /\ registration_count = 0
    /\ registration_complete = FALSE
    /\ global_lock = Free
    /\ reg = [s \in PairIds |-> RegIdle]
    /\ samples = {}
    /\ now = 0
    /\ train_req = [r \in TrainReqIds |-> "idle"]
    /\ trainer = [t \in TrainerIds |-> TrainerIdle]
    /\ model_yml = NoFile
    /\ metadata_npz = NoFile
    /\ att = [a \in AttIds |-> AttIdle]
    /\ attendance_marked_set = {}
    /\ ledger = <<>>
    /\ today = 0
    /\ status_response = NoResponse

NextSanitize ==
    \/ \E s \in PairIds, inp \in SanitizeInputs : video_feed_register(s, inp)
    \/ \E s \in PairIds : RegOpen(s)
    \/ \E s \in PairIds : RegRelease(s)

\* two registration requests and the sample directories they are given
SpecSanitize == InitSanitize /\ [][NextSanitize]_vars

\* what each model file may be when the server starts: missing, or left by
\* an earlier training run
StartupFiles == {NoFile, FileOf(OldLabelMap)}

\* the server was started on a disk holding any of the model files, and N
\* samples have been captured since (src/app.py:45-47, 811)
InitPersist ==
    \E yml \in StartupFiles, npz \in StartupFiles :
       /\ registration_count = N
       /\ registration_complete = (yml.exists /\ npz.exists)
       /\ global_lock = Free
       /\ reg = [s \in RegIds |-> RegIdle]
       /\ samples = RetrainStore
       /\ now = 0
       /\ train_req = [r \in TrainReqIds |-> "idle"]
       /\ trainer = [t \in TrainerIds |-> TrainerIdle]
       /\ model_yml = yml
       /\ metadata_npz = npz
       /\ att = [a \in AttIds |-> AttIdle]
       /\ attendance_marked_set = {}
       /\ ledger = <<>>
       /\ today = 0
       /\ status_response = NoResponse

NextPersist ==
    \/ \E r \in TrainReqIds : TrainModelCheck(r)
    \/ \E r \in TrainReqIds : TrainModelLaunch(r)
    \/ \E t \in TrainerIds : TrainerWalk(t)
    \/ \E t \in TrainerIds : TrainerWriteYml(t)
    \/ \E t \in TrainerIds : TrainerWriteNpz(t)
    \/ \E t \in TrainerIds : TrainerSetComplete(t)
    \/ \E t \in TrainerIds : TrainerNoData(t)
    \/ Restart

\* the training trigger, the training threads and restarts of the server, on
\* a disk that may already hold model files
SpecPersist == InitPersist /\ [][NextPersist]_vars

\* src/app.py:780-783: the camera is available
CameraOpens(s) == RegOpen(s) /\ reg'[s].cap

\* src/app.py:784-796: the camera delivers a frame in which a face is detected
FaceFrame(s) == RegFrame(s) /\ reg'[s].pc = "save"

\* src/app.py:824-825: the consumer asks for the next frame
ConsumerReads(s) == RegYield(s) /\ reg'[s].pc = "check"

\* video_feed_register has just answered the request of Carol on a server
\* that was started with no file on disk; the generator has not run yet
InitOneCapture ==
    /\ registration_count = 0
    /\ registration_complete = FALSE
    /\ global_lock = Free
    /\ reg = [s \in RegIds |->
                IF s \in TrainRegIds
                THEN [RegIdle EXCEPT !.pc = "open", !.inp = Carol,
                                     !.dest_dir = KeyOf(Carol)]
                ELSE RegIdle]
    /\ samples = {}
    /\ now = 0
    /\ train_req = [r \in TrainReqIds |-> "idle"]
    /\ trainer = [t \in TrainerIds |-> TrainerIdle]
    /\ model_yml = NoFile
    /\ metadata_npz = NoFile
    /\ att = [a \in AttIds |-> AttIdle]
    /\ attendance_marked_set = {}
    /\ ledger = <<>>
    /\ today = 0
    /\ status_response = NoResponse

\* a step of the generator of the capture stream, on a camera that shows a
\* face in every frame and with a consumer that keeps reading
OneCaptureStep ==
    \E s \in TrainRegIds :
       \/ CameraOpens(s)
       \/ FaceFrame(s)
       \/ RegSave(s)
       \/ RegSleep(s)
       \/ RegAnnotate(s)
       \/ ConsumerReads(s)
       \/ RegCheck(s)
       \/ RegRelease(s)

NextOneCapture ==
    \/ OneCaptureStep
    \/ registration_status

\* one capture stream that is read to its end, and the status poll; no reset
\* and no other session start.  The thread that runs the generator is
\* scheduled as long as the consumer reads: its next step is always taken
SpecOneCapture ==
    InitOneCapture /\ [][NextOneCapture]_vars /\ WF_vars(OneCaptureStep)

\* src/app.py:182-195: at least one stored sample is readable
ReadableWalk(t) == TrainerWalk(t) /\ trainer'[t].pc # "nodata"

\* a step of a training thread
TrainerStep ==
    \E t \in TrainerIds :
       \/ ReadableWalk(t)
       \/ TrainerWriteYml(t)
       \/ TrainerWriteNpz(t)
       \/ TrainerSetComplete(t)

NextPoll ==
    \/ \E r \in TrainReqIds : TrainModelCheck(r)
    \/ \E r \in TrainReqIds : TrainModelLaunch(r)
    \/ TrainerStep
    \/ registration_status

\* the training trigger, the training threads and a client that polls the
\* status, on a disk that may already hold model files.  A started thread
\* runs to its end and the client keeps polling
SpecPoll ==
    InitPersist /\ [][NextPoll]_vars
        /\ WF_vars(TrainerStep) /\ WF_vars(registration_status)

\* ------------------------------------------------------------------------
\* Properties
\* ------------------------------------------------------------------------

\* C1: a capture session never writes more than N sample files, whatever
\* resets, training triggers and other session starts interleave with it.
C1_CaptureBound == \A s \in RegIds : reg[s].written <= N

\* C2: the ledger holds at most one record per identity and calendar day.
C2_OneRecordPerDay ==
    \A i, j \in 1 .. Len(ledger) :
        (/\ ledger[i][1] = ledger[j][1]
         /\ ledger[i][2] = ledger[j][2]
         /\ ledger[i][3] = ledger[j][3]
         /\ ledger[i][4].date = ledger[j][4].date) => i = j

\* the identities of the model on disk
TrainedKeys == DictKeys(metadata_npz.content)

\* C3: for every identity whose record mark_attendance appended today, the
\* marked set load_today_attendance rebuilds from the ledger contains the
\* composite key of that identity.
C3_RestartSafety ==
    \A key \in TrainedKeys :
        (\E i \in 1 .. Len(ledger) : ledger[i] = AttendanceRow(key, today))
            => key \in load_today_attendance(ledger, today)

\* C4: while a capture session is open registration_count never decreases,
\* and the request that opens a session leaves registration_count at 0.
C4_CountMonotonic ==
    [][\A s \in RegIds :
         /\ (reg[s].pc # "idle" /\ reg'[s].pc # "idle")
               => registration_count' >= registration_count
         /\ (reg[s].pc = "idle" /\ reg'[s].pc = "open")
               => registration_count' = 0]_vars

C6_ThresholdEdge ==
    [][\A a \in AttIds :
         att'[a] # att[a] =>
            /\ att'[a].last.conf >= RECOGNITION_THRESHOLD
                  => /\ att'[a].last.status = "Face Not Recognized"
                     /\ att'[a].pc \notin {"mark", "add"}
                     /\ ledger' = ledger
                     /\ attendance_marked_set' = attendance_marked_set
            /\ att'[a].last.status \in {"marking", "Already Marked", "Attendance Marked"}
                  <=> (att'[a].last.conf >= 0
                        /\ att'[a].last.conf < RECOGNITION_THRESHOLD)
            /\ att'[a].pc \in {"mark", "add"} => att'[a].last.status = "marking"]_vars

\* a face at exactly the threshold has been rejected
C6_Witness ==
    \E a \in AttIds :
        /\ att[a].loaded
        /\ att[a].last.conf = RECOGNITION_THRESHOLD
        /\ att[a].last.status = "Face Not Recognized"

\* C7: a training run that finds no image ends as a failure and none of its
\* steps changes registration_complete, the counter or the two model files.
C7_NoDataNoChange ==
    [][\A t \in TrainerIds :
         /\ (trainer[t].pc = "start" /\ trainer'[t].pc = "nodata")
               => UNCHANGED <<registration_complete, registration_count,
                              model_yml, metadata_npz>>
         /\ trainer[t].pc = "nodata" /\ trainer'[t] # trainer[t]
               => /\ trainer'[t].pc = "idle"
                  /\ UNCHANGED <<registration_complete, registration_count,
                                 model_yml, metadata_npz>>]_vars

\* a run has found no image
C7_Witness == \E t \in TrainerIds : trainer[t].pc = "nodata"

\* the label map a session has loaded is inverted exactly
InverseRecovers(label_map, inv_label_map) ==
    \A i \in 1 .. Len(label_map) :
        PredictedComposite(inv_label_map, label_map[i][2]) = label_map[i][1]

\* C8: after a successful run label_map gives the k identities that have a
\* readable image the distinct labels 0 .. k-1, and the inverse map built when
\* an attendance session starts returns the identity of every label.
C8_LabelRoundTrip ==
    /\ \A t \in TrainerIds :
          trainer[t].pc \in {"write_yml", "write_npz"} =>
             LET label_map == trainer[t].label_map
                 k == Cardinality(trainer[t].faces)
             IN  /\ DictKeys(label_map) = trainer[t].faces
                 /\ Len(label_map) = k
                 /\ DictValues(label_map) = 0 .. (k - 1)
                 /\ InverseRecovers(label_map, InvLabelMap(label_map))
    /\ \A a \in AttIds :
          att[a].loaded =>
             /\ InverseRecovers(att[a].label_map, att[a].inv_label_map)
             /\ Len(att[a].inv_label_map) = Len(att[a].label_map)

\* a session has loaded the map of a run that found three identities
C8_Witness ==
    \E a \in AttIds :
        /\ att[a].loaded
        /\ Len(att[a].label_map) = 3
        /\ registration_complete

RestingReq == {"idle", "not_enough", "initiated"}

\* C9: train_model starts a thread only after it has read a counter of at
\* least N under the lock; below N it answers that there are not enough
\* captures and changes nothing; the acknowledgment is returned while the
\* thread it started has not yet run.
C9_TrainTrigger ==
    [][/\ \A r \in TrainReqIds :
            /\ (train_req[r] \in RestingReq /\ train_req'[r] = "launch")
                  => registration_count >= N /\ global_lock = Free
            /\ (train_req[r] \in RestingReq /\ train_req'[r] # train_req[r]
                  /\ registration_count < N)
                  => /\ train_req'[r] = "not_enough"
                     /\ UNCHANGED <<registration_count, registration_complete,
                                    global_lock, reg, samples, trainer,
                                    model_yml, metadata_npz>>
            /\ (train_req[r] = "launch" /\ train_req'[r] # "launch")
                  => /\ train_req'[r] = "initiated"
                     /\ \E t \in TrainerIds :
                           trainer[t].pc = "idle" /\ trainer'[t].pc = "start"
                     /\ UNCHANGED <<registration_count, registration_complete,
                                    model_yml, metadata_npz>>
       /\ \A t \in TrainerIds :
            (trainer[t].pc = "idle" /\ trainer'[t].pc # "idle")
               => /\ trainer'[t].pc = "start"
                  /\ \E r \in TrainReqIds :
                        train_req[r] = "launch" /\ train_req'[r] = "initiated"]_vars

\* a request has been acknowledged and its thread has not yet run, and a
\* request has been refused
C9_Witness ==
    \E r \in TrainReqIds, t \in TrainerIds :
        train_req[r] = "initiated" /\ trainer[t].pc = "start"

\* C10: at most one training run started by train_model is active at a time.
C10_SingleRun == Cardinality({t \in TrainerIds : trainer[t].pc # "idle"}) <= 1

\* C11: every step of a request or thread that reads or writes
\* registration_count or registration_complete is taken holding global_lock:
\* the lock is free for it to take when the step begins.
C11_LockDiscipline ==
    [][/\ registration_count' # registration_count => global_lock = Free
       /\ registration_complete' # registration_complete => global_lock = Free
       /\ status_response' # status_response => global_lock = Free
       /\ \A s \in RegIds :
            (reg'[s] # reg[s] /\ reg[s].pc \in {"idle", "save", "annot", "check"})
               => global_lock = Free
       /\ \A r \in TrainReqIds :
            (train_req[r] \in RestingReq /\ train_req'[r] # train_req[r])
               => global_lock = Free
       /\ \A a \in AttIds :
            (att[a].pc = "idle" /\ att'[a].pc = "open") => global_lock = Free]_vars

\* C12: an attendance session never holds a classifier and a label map that
\* were written by different training runs (the two would differ).
C12_AtomicReplace ==
    \A a \in AttIds : att[a].loaded => att[a].model = att[a].label_map

C14_StatusQuery ==
    [][status_response' # status_response =>
         /\ global_lock = Free
         /\ status_response'.count = registration_count
         /\ status_response'.complete = registration_complete
         /\ UNCHANGED <<registration_count, registration_complete, global_lock,
                        reg, samples, now, train_req, trainer, model_yml,
                        metadata_npz, att, attendance_marked_set, ledger, today>>
         /\ (samples = {} /\ ~model_yml.exists /\ ~metadata_npz.exists)
               => status_response' = [count |-> 0, complete |-> FALSE]]_vars

\* the poll has answered N and true
C14_Witness == status_response = [count |-> N, complete |-> TRUE]

\* C15: a face whose predicted label is absent from the label map is treated
\* as not matched whatever its confidence: the steps that handle it append
\* nothing to the ledger, leave the marked set unchanged, draw no Attendance
\* Marked text, call speak for nothing, and the stream goes on.
C15_UnknownNotMatched ==
    [][\A a \in AttIds :
         (/\ att[a].pc \in {"face", "mark", "add"}
          /\ att'[a] # att[a]
          /\ att'[a].last.who = UnknownKey)
            => /\ ledger' = ledger
               /\ attendance_marked_set' = attendance_marked_set
               /\ att'[a].last.status # "Attendance Marked"
               /\ ~att'[a].last.said
               /\ att'[a].pc \in {"face", "mark", "yield"}]_vars

\* C16: a matched face whose identity is already in the marked set is
\* annotated Already Marked; the step appends nothing to the ledger, leaves
\* the marked set unchanged and calls speak for nothing; and Already Marked
\* is drawn for no other face.
C16_AlreadyMarked ==
    [][\A a \in AttIds :
         /\ (/\ att[a].pc = "face"
             /\ att'[a] # att[a]
             /\ att'[a].last.conf >= 0
             /\ att'[a].last.conf < RECOGNITION_THRESHOLD
             /\ att'[a].last.who \in attendance_marked_set)
               => /\ att'[a].last.status = "Already Marked"
                  /\ ~att'[a].last.said
                  /\ att'[a].pc \notin {"mark", "add"}
                  /\ ledger' = ledger
                  /\ attendance_marked_set' = attendance_marked_set
         /\ (att'[a].last # att[a].last /\ att'[a].last.status = "Already Marked")
               => /\ att'[a].last.who \in attendance_marked_set
                  /\ att'[a].last.conf < RECOGNITION_THRESHOLD]_vars

\* a session has met again the identity it marked before
C16_Witness ==
    \E a \in AttIds :
        /\ att[a].last.status = "Already Marked"
        /\ att[a].last.who = KeyOf(Carol)
        /\ \E i \in 1 .. Len(ledger) : ledger[i] = AttendanceRow(KeyOf(Carol), today)

\* the name a part of a composite key carries after its prefix
FieldOf(part, prefix) == SubSeq(part, Len(prefix) + 1, Len(part))

\* the row (B, A, C, timestamp) of the identity batch_A/department_B/student_C
RowOfIdentity(composite_label, day) ==
    LET parts == Split(composite_label)
    IN  <<FieldOf(parts[2], DeptPrefix), FieldOf(parts[1], BatchPrefix),
          FieldOf(parts[3], StudentPrefix), Timestamp(day)>>

\* C17: marking an identity batch_A/department_B/student_C that is not in the
\* marked set appends exactly the row (B, A, C, current timestamp), then adds
\* the composite key to the marked set and calls speak once; no step changes
\* or removes a row the ledger already holds.
C17_MarkAppendsRow ==
    [][/\ \A a \in AttIds :
            /\ (att[a].pc = "mark" /\ att'[a].pc = "add")
                  => /\ ledger' = Append(ledger, RowOfIdentity(att[a].cur, today))
                     /\ attendance_marked_set' = attendance_marked_set
            /\ (att[a].pc = "add" /\ att'[a] # att[a])
                  => /\ attendance_marked_set' = attendance_marked_set \cup {att[a].cur}
                     /\ ledger' = ledger
                     /\ att'[a].last.status = "Attendance Marked"
                     /\ att'[a].last.said
       /\ Len(ledger') >= Len(ledger)
       /\ SubSeq(ledger', 1, Len(ledger)) = ledger]_vars

\* C18: two registrations whose (batch name, department name, student name)
\* triples differ are never given the same sample directory.
C18_SanitizeInjective ==
    \A s1, s2 \in DOMAIN reg :
        (/\ reg[s1].pc # "idle"
         /\ reg[s2].pc # "idle"
         /\ reg[s1].inp # reg[s2].inp) => reg[s1].dest_dir # reg[s2].dest_dir

\* C19: when a training run that has found no image ends,
\* registration_complete is false, whatever it was before.
C19_NoDataClearsFlag ==
    [][\A t \in TrainerIds :
         (trainer[t].pc = "nodata" /\ trainer'[t].pc = "idle")
            => registration_complete' = FALSE]_vars

\* C19 as amended: a training run that has found no image ends leaving
\* registration_complete as it was: false stays false and true stays true.
C19_NoDataKeepsFlag ==
    [][\A t \in TrainerIds :
         (trainer[t].pc = "nodata" /\ trainer'[t].pc = "idle")
            => registration_complete' = registration_complete]_vars

\* a run has found no image while the flag of an earlier run is set
C19_Witness ==
    /\ registration_complete
    /\ \E t \in TrainerIds : trainer[t].pc = "nodata"

\* C20: in a capture session that has saved its 5th sample, the frame of
\* that sample is emitted with the completion text, and the loop then leaves
\* for the finally clause without acquiring another frame.
C20_FinalFrame ==
    \A s \in RegIds :
       reg[s].written >= N =>
          /\ reg[s].pc \in {"sleep", "annot", "yield", "check", "finally"}
          /\ reg[s].pc \in {"yield", "check"} => reg[s].text
          /\ reg[s].pc \in {"sleep", "annot", "yield", "check"} => reg[s].cap

\* C21: in a capture session a frame that is empty, cannot be converted or
\* makes the detector fail is skipped: the step that handles the frame leaves
\* registration_count as it is and does not leave the loop.
C21_FrameFailureSkips ==
    [][\A s \in RegIds :
         (reg[s].pc = "frame" /\ reg'[s] # reg[s])
            => /\ reg'[s].pc \in {"save", "annot"}
               /\ registration_count' = registration_count]_vars

\* C22: a stream ends only through its normal termination or because the
\* consumer closes it: a capture stream leaves its loop only at the test that
\* follows the yield, with the counter at N, or at the yield itself; an
\* attendance stream leaves its loop only at the yield.
C22_StreamEndsNormally ==
    [][/\ \A s \in RegIds :
            (reg[s].pc # "finally" /\ reg'[s].pc = "finally")
               => \/ reg[s].pc = "yield"
                  \/ reg[s].pc = "check" /\ CaptureComplete(registration_count)
       /\ \A a \in AttIds :
            (att[a].pc # "finally" /\ att'[a].pc = "finally")
               => att[a].pc = "yield"]_vars

\* C23: in an attendance session a detection whose conversion or prediction
\* fails is skipped alone: nothing is committed for it, the loop goes on to
\* the next detection of the frame if there is one, and the frame is emitted
\* once every detection has been handled.
C23_FaceSkippedAlone ==
    [][\A a \in AttIds :
         (/\ att[a].pc = "face"
          /\ att'[a] # att[a]
          /\ att'[a].last.status = "skipped")
            => /\ att'[a].faces = att[a].faces - 1
               /\ att'[a].pc = (IF att[a].faces > 1 THEN "face" ELSE "yield")
               /\ att'[a].pc = "yield" => att'[a].faces = 0
               /\ ledger' = ledger
               /\ attendance_marked_set' = attendance_marked_set]_vars

\* one detection has been skipped and another of the same frame is left
C23_Witness ==
    \E a \in AttIds :
       /\ att[a].pc = "face"
       /\ att[a].faces >= 1
       /\ att[a].last.status = "skipped"

C25_ModelHeldForSession ==
    [][\A a \in AttIds :
         (att[a].pc # "idle" /\ att'[a].pc # "idle")
            => /\ att'[a].loaded = att[a].loaded
               /\ att'[a].model = att[a].model
               /\ att'[a].label_map = att[a].label_map
               /\ att'[a].inv_label_map = att[a].inv_label_map]_vars

\* a training run has completed and replaced both files while a session that
\* loaded the earlier model was open, and the session has recognised a face
\* since
C25_Witness ==
    \E a \in AttIds :
       /\ att[a].loaded
       /\ att[a].pc = "yield"
       /\ att[a].last.status = "Attendance Marked"
       /\ att[a].label_map = OldLabelMap
       /\ att[a].model = OldLabelMap
       /\ model_yml.content # OldLabelMap
       /\ metadata_npz.content # OldLabelMap
       /\ registration_complete
       /\ \A t \in TrainerIds : trainer[t].pc = "idle"

\* the step is a start of the server: a train_model request that had been
\* answered is forgotten
IsStartupStep ==
    \E r \in TrainReqIds : train_req[r] # "idle" /\ train_req'[r] = "idle"

\* C26: registration_complete implies that both model files exist.  When the
\* server starts the flag is true exactly when both files exist; afterwards
\* it becomes true only in the last step of a training thread, which has
\* written both files before.
C26_CompleteImpliesPersisted ==
    /\ registration_complete = (model_yml.exists /\ metadata_npz.exists)
    /\ [](registration_complete => model_yml.exists /\ metadata_npz.exists)
    /\ [][/\ IsStartupStep
            => registration_complete' =
                  (model_yml'.exists /\ metadata_npz'.exists)
          /\ (~registration_complete /\ registration_complete')
            => \/ IsStartupStep
               \/ \E t \in TrainerIds :
                     /\ trainer[t].pc = "flag"
                     /\ trainer'[t].pc = "idle"
                     /\ model_yml.exists /\ metadata_npz.exists]_vars

\* a training thread started on a disk without the label-map file has written
\* both files and set the flag
C26_Witness ==
    /\ registration_complete
    /\ model_yml.exists /\ metadata_npz.exists
    /\ metadata_npz.content # OldLabelMap
    /\ \E r \in TrainReqIds : train_req[r] = "initiated"
    /\ \A t \in TrainerIds : trainer[t].pc = "idle"

\* C27: no sample file is ever deleted or overwritten: every file stays, and
\* every sample a session saves is written under a name no file has yet.
C27_SamplesNeverOverwritten ==
    [][/\ samples \subseteq samples'
       /\ \A s \in RegIds :
            reg'[s].written = reg[s].written + 1
               => Cardinality(samples') = Cardinality(samples) + 1]_vars

\* C28: a matched face is refused as "Already Marked" only if the ledger
\* holds a record of that identity dated today; otherwise a record is
\* appended, also in a session that was opened on an earlier day.
C28_MarkedAfterMidnight ==
    [][\A a \in AttIds :
         (/\ att[a].pc = "face"
          /\ att'[a] # att[a]
          /\ att'[a].last.status = "Already Marked")
            => \E i \in 1 .. Len(ledger) :
                  ledger[i] = AttendanceRow(att'[a].last.who, today)]_vars

C30_NoLockWhileSuspended ==
    \A s \in RegIds :
       reg[s].pc \in {"frame", "sleep", "yield"} => global_lock # <<"reg", s>>

\* C31: with a face detected in every frame, a consumer that keeps reading
\* and no reset or other session start, a capture stream that has been opened
\* eventually ends with registration_count = N.
C31_CaptureCompletes ==
    (\E s \in TrainRegIds : reg[s].pc = "open")
        ~> (\E s \in TrainRegIds :
               reg[s].pc = "finally" /\ registration_count = N)

\* C32: after train_model has answered "Training initiated", with a readable
\* sample stored, a status poll eventually observes registration_complete =
\* TRUE; and no poll observes TRUE while a training thread is still running.
C32_TrainingObserved ==
    /\ (\E r \in TrainReqIds : train_req[r] = "initiated")
          ~> (registration_complete /\ status_response.complete)
    /\ [][(status_response' # status_response /\ status_response'.complete)
            => \A t \in TrainerIds : trainer[t].pc = "idle"]_vars

====
